---- MODULE Spec2Model ----
(***************************************************************************)
(* Model of tardis/plasma/plasma_properties.py: the plasma property nodes  *)
(* (BasePlasmaProperty and its subclasses), their update() driver and the  *)
(* calculate() of every concrete node.                                     *)
(*                                                                         *)
(* Python objects are attribute dictionaries: a TLA+ function from         *)
(* attribute names to tagged values.  Reading an attribute that is not in  *)
(* the dictionary raises AttributeError, assigning one extends it.         *)
(* Floating-point numbers are fixed-point thousandths (Milli).             *)
(***************************************************************************)
EXTENDS Integers, Sequences, FiniteSets, TLC

VARIABLES
    plasma_parent,  \* the shared context: attribute name -> value
    atomic_data,    \* the atomic-data source object the context refers to
    nodes,          \* node -> instance dictionary (value, k_B_cgs, ...)
    reads,          \* history: name -> reads of atomic_data.<name> so far
    first_load,     \* history: name -> dataset seen by the first load
    mutated,        \* history: name -> the source changed after construction
    last            \* history: the last call made and its outcome

vars == <<plasma_parent, atomic_data, nodes, reads, first_load, mutated, last>>

----------------------------------------------------------------------------
(* Bounds of the model *)

MaxCells == 2      \* cells (columns) of t_rad / beta_rad / ws
MaxT == 2          \* radiation temperatures are 1..MaxT
MaxLevels == 2     \* rows of a levels table
MaxReads == 3      \* cap of the read counters
NDatasets == 2     \* distinct datasets the source can hold per name

----------------------------------------------------------------------------
(* Values *)

\* fixed-point scale standing for float64
Milli == 1000

\* the not-a-number float
NaN == -1

None == [tag |-> "None"]
Array(a) == [tag |-> "array", array |-> a]
Tuple2(a, b) == [tag |-> "tuple", first |-> a, second |-> b]
Ref(o) == [tag |-> "object", object |-> o]

NoError == [type |-> "none", arg |-> ""]
Raise(t, a) == [type |-> t, arg |-> a]

\* obj.attr = v
SetAttr(obj, attr, v) ==
    [a \in DOMAIN obj \cup {attr} |-> IF a = attr THEN v ELSE obj[a]]

HasAttr(obj, attr) == attr \in DOMAIN obj

Range(s) == {s[i] : i \in DOMAIN s}

----------------------------------------------------------------------------
(* Classes *)

MemoNodes == {"AtomicLevels", "AtomicLines"}
\* "BareSubclass" is a subclass that declares inputs and does not override
\* calculate; "BasePlasmaProperty" is the base class itself.
AbstractNodes == {"BasePlasmaProperty", "BareSubclass"}
Nodes == MemoNodes \cup AbstractNodes \cup
         {"BetaRadiation", "LevelBoltzmannFactor", "PartitionFunction"}

name(n) ==
    CASE n = "AtomicLevels" -> "levels"
      [] n = "AtomicLines" -> "lines"
      [] n = "BetaRadiation" -> "beta_rad"
      [] n = "LevelBoltzmannFactor" -> "level_boltzmann_factor"

\* classes that carry an inputs attribute
HasInputs(n) == n # "BasePlasmaProperty"

inputs(n) ==
    CASE n \in MemoNodes -> <<"atomic_data">>
      [] n = "BetaRadiation" -> <<"t_rad">>
      [] n = "LevelBoltzmannFactor" -> <<"levels", "beta_rad">>
      [] n = "PartitionFunction" -> <<"levels", "level_boltzmann_factor">>
      [] n = "BareSubclass" -> <<"t_rad">>

\* Boltzmann constant snapshot, in units where one temperature unit is one
\* energy unit
k_B_cgs == 1

\* BasePlasmaProperty.__init__ and the subclasses' __init__
Construct(n) ==
    LET base == [plasma_parent |-> Ref("plasma_parent")] IN
    CASE n \in MemoNodes -> SetAttr(base, "value", None)
      [] n = "BetaRadiation" -> SetAttr(base, "k_B_cgs", k_B_cgs)
      [] OTHER -> base

----------------------------------------------------------------------------
(* Tables *)

\* (atomic_number, ion_number) of the species, the statistical weights and
\* the level energies that occur in the levels tables
Species == {<<1, 0>>, <<2, 1>>}
GValues == {1, 2}
EnergyValues == {0, 1}

\* a levels table: index (atomic_number, ion_number, level_number) and the
\* columns g, energy, metastable
LevelsTable(sp, g, e, m) ==
    [tag |-> "levels",
     index |-> [k \in DOMAIN sp |->
                  <<sp[k][1], sp[k][2],
                    Cardinality({j \in 1..(k - 1) : sp[j] = sp[k]})>>],
     g |-> g, energy |-> e, metastable |-> m]

LevelsTablesOfLen(n) ==
    {LevelsTable(sp, g, e, m) :
        sp \in [1..n -> Species], g \in [1..n -> GValues],
        e \in [1..n -> EnergyValues], m \in [1..n -> BOOLEAN]}

LevelsTables == UNION {LevelsTablesOfLen(n) : n \in 0..MaxLevels}

DataFrame(index, columns, data) ==
    [tag |-> "DataFrame", index |-> index, columns |-> columns, data |-> data]

\* the result of groupby(level=['atomic_number', 'ion_number']).sum():
\* species -> row of per-cell sums
Grouped(rows) == [tag |-> "grouped", rows |-> rows]

\* np.arange(n)
arange(n) == [c \in 1..n |-> c - 1]

SpeciesOf(key) == <<key[1], key[2]>>

RECURSIVE SumOver(_, _)
SumOver(f, S) ==
    IF S = {} THEN 0
    ELSE LET x == CHOOSE y \in S : TRUE
         IN f[x] + SumOver(f, S \ {x})

\* frame[mask].groupby(level=['atomic_number', 'ion_number']).sum()
GroupSum(index, data, ncols, mask) ==
    LET ks == {k \in DOMAIN index : mask[k]}
        present == {SpeciesOf(index[k]) : k \in ks}
    IN [s \in present |->
          [c \in 1..ncols |->
             SumOver([k \in DOMAIN index |-> data[k][c]],
                     {k \in ks : SpeciesOf(index[k]) = s})]]

\* np.exp(-x) for x >= 0 in thousandths, tabulated at half-unit steps
ExpTable == <<1000, 607, 368, 223, 135, 82, 50, 30, 18, 11, 7, 4, 2, 2, 1, 1>>

np_exp_neg(x) ==
    LET h == (2 * x) \div Milli
    IN IF h < Len(ExpTable) THEN ExpTable[h + 1] ELSE 0

\* g[newaxis].T * np.exp(np.outer(energy, -beta))
WeightedArray(levels, beta) ==
    [k \in DOMAIN levels.index |->
       [c \in DOMAIN beta |->
          levels.g[k] * np_exp_neg(levels.energy[k] * beta[c])]]

----------------------------------------------------------------------------
(* calculate: the outcome of one call is what it raised, what it returned, *)
(* the instance afterwards and how many source attributes it read          *)

Outcome(raised, ret, self, nread) ==
    [raised |-> raised, ret |-> ret, self |-> self, nread |-> nread]

\* a calculate whose body does nothing
BasePlasmaProperty_calculate_pass(self, args) ==
    Outcome(NoError, None, self, 0)

BasePlasmaProperty_calculate(self, args) ==
    Outcome(Raise("NotImplementedError",
                  "This method needs to be implemented by "), None, self, 0)

\* a calculate that reads the dataset before it tests the capability flag
BaseAtomicDataProperty_calculate_eager(n, self, src) ==
    IF self.value # None
    THEN Outcome(NoError, self.value, self, 0)
    ELSE IF ~src["has_" \o name(n)]
         THEN Outcome(Raise("IncompleteAtomicData", name(n)), None,
                      SetAttr(self, "value", src[name(n)]), 1)
         ELSE Outcome(NoError, None, SetAttr(self, "value", src[name(n)]), 1)

BaseAtomicDataProperty_calculate(n, self, src) ==
    IF self.value # None
    THEN Outcome(NoError, self.value, self, 0)
    ELSE IF ~src["has_" \o name(n)]
         THEN Outcome(Raise("IncompleteAtomicData", name(n)), None, self, 0)
         ELSE Outcome(NoError, None, SetAttr(self, "value", src[name(n)]), 1)

\* a calculate that keeps the value it computed first
BetaRadiation_calculate_cached(self, t_rad) ==
    IF HasAttr(self, "value")
    THEN Outcome(NoError, self.value, self, 0)
    ELSE Outcome(NoError,
                 Array([i \in DOMAIN t_rad.array |->
                          Milli \div (self.k_B_cgs * t_rad.array[i])]),
                 self, 0)

BetaRadiation_calculate(self, t_rad) ==
    IF t_rad.tag # "array"
    THEN Outcome(Raise("TypeError", "*"), None, self, 0)
    ELSE Outcome(NoError,
                 Array([i \in DOMAIN t_rad.array |->
                          Milli \div (self.k_B_cgs * t_rad.array[i])]),
                 self, 0)

\* a calculate that labels the rows with the levels index in reverse order
LevelBoltzmannFactor_calculate_reversed(self, levels, beta_rad) ==
    Outcome(NoError,
            DataFrame([k \in DOMAIN levels.index |->
                         levels.index[Len(levels.index) + 1 - k]],
                      arange(Len(beta_rad.array)),
                      WeightedArray(levels, beta_rad.array)),
            self, 0)

LevelBoltzmannFactor_calculate(self, levels, beta_rad) ==
    IF levels.tag # "levels"
    THEN Outcome(Raise("AttributeError", "energy"), None, self, 0)
    ELSE IF beta_rad.tag # "array"
    THEN Outcome(Raise("TypeError", "-"), None, self, 0)
    ELSE Outcome(NoError,
                 DataFrame(levels.index, arange(Len(beta_rad.array)),
                           WeightedArray(levels, beta_rad.array)),
                 self, 0)

\* outcomes of partition_functions.ix[idx] += x for a species of idx that is
\* not in partition_functions: the indexer raises, or the sum with the
\* missing row is not-a-number, or the row is not written at all
IxMissing == {"KeyError", "NaN", "dropped"}

\* lines 130-134, given the two aggregates
AddNonMeta(meta, nonmeta, ncols, ix) ==
    LET kept == IF ix = "NaN" THEN DOMAIN meta \cup DOMAIN nonmeta
                ELSE DOMAIN meta
    IN [s \in kept |->
          [c \in 1..ncols |->
             IF s \notin DOMAIN meta THEN NaN
             ELSE IF s \in DOMAIN nonmeta THEN meta[s][c] + nonmeta[s][c]
             ELSE meta[s][c]]]

\* the names the module binds at import; a lookup of any other global name
\* raises NameError
module_globals ==
    [nm \in {"ABCMeta", "abstractmethod", "const", "np", "pd",
             "IncompleteAtomicData", "BasePlasmaProperty",
             "BaseAtomicDataProperty", "AtomicLevels", "AtomicLines",
             "BetaRadiation", "LevelBoltzmannFactor", "PartitionFunction"}
        |-> Ref(nm)]

\* lines 137-139: g of the species' first level times the sum over its
\* levels of (level population / first-level population), in cell c
NlteEntry(self, s, c) ==
    LET alv == self.atom_data.levels
        ks == {k \in DOMAIN alv.index : SpeciesOf(alv.index[k]) = s}
        k0 == CHOOSE k \in ks : \A j \in ks : k <= j
        pop == self.level_populations.data
    IN alv.g[k0] *
       SumOver([k \in DOMAIN alv.index |-> (pop[k][c] * Milli) \div pop[k0][c]],
               ks)

\* lines 136-139
NlteOverride(self, pf, ncols) ==
    LET over == Range(self.nlte_config.species)
    IN [s \in DOMAIN pf \cup over |->
          IF s \in over THEN [c \in 1..ncols |-> NlteEntry(self, s, c)]
          ELSE pf[s]]

PartitionFunction_calculate(self, levels, level_boltzmann_factor, ix) ==
    IF levels.tag # "levels"
    THEN Outcome(Raise("AttributeError", "g"), None, self, 0)
    ELSE IF ~HasAttr(self, "beta_rads")
    THEN Outcome(Raise("AttributeError", "beta_rads"), None, self, 0)
    ELSE IF ~HasAttr(self, "atom_data")
    THEN Outcome(Raise("AttributeError", "atom_data"), None, self, 0)
    ELSE IF ~HasAttr(self, "t_rads")
    THEN Outcome(Raise("AttributeError", "t_rads"), None, self, 0)
    ELSE
    LET beta == self.beta_rads.array
        ncols == Len(beta)
        arr == WeightedArray(levels, beta)
        alv == self.atom_data.levels
    IN
    IF Len(alv.index) # Len(arr) \/ Len(self.t_rads.array) # ncols
    THEN Outcome(Raise("ValueError", "Shape of passed values"), None, self, 0)
    ELSE
    LET lpp == DataFrame(alv.index, arange(ncols), arr)
        meta == GroupSum(alv.index, arr, ncols, alv.metastable)
    IN
    IF ~HasAttr(self, "ws")
    THEN Outcome(Raise("AttributeError", "ws"), None, self, 0)
    ELSE IF Len(self.ws.array) # ncols
    THEN Outcome(Raise("ValueError", "Unable to coerce to Series"), None, self, 0)
    ELSE
    LET sums == GroupSum(alv.index, arr, ncols,
                         [k \in DOMAIN alv.index |-> ~alv.metastable[k]])
        nonmeta == [s \in DOMAIN sums |->
                      [c \in 1..ncols |->
                         (self.ws.array[c] * sums[s][c]) \div Milli]]
    IN
    IF DOMAIN nonmeta \ DOMAIN meta # {} /\ ix = "KeyError"
    THEN Outcome(Raise("KeyError", "not in index"), None, self, 0)
    ELSE IF ~HasAttr(self, "nlte_config")
    THEN Outcome(Raise("AttributeError", "nlte_config"), None, self, 0)
    ELSE
    LET pf == AddNonMeta(meta, nonmeta, ncols, ix) IN
    IF self.nlte_config # None /\ self.nlte_config.species # <<>>
    THEN IF ~HasAttr(module_globals, "initialize_nlte")
         THEN Outcome(Raise("NameError", "initialize_nlte"), None, self, 0)
         ELSE IF ~module_globals["initialize_nlte"].bool
         THEN Outcome(NoError,
                      Tuple2(lpp, Grouped(NlteOverride(self, pf, ncols))),
                      self, 0)
         ELSE Outcome(NoError, Tuple2(lpp, Grouped(pf)), self, 0)
    ELSE Outcome(NoError, Tuple2(lpp, Grouped(pf)), self, 0)

\* self.calculate(*args), dispatched on the class of the node
calculate(n, self, args, ix) ==
    CASE n \in MemoNodes -> BaseAtomicDataProperty_calculate(n, self, args[1])
      [] n = "BetaRadiation" -> BetaRadiation_calculate(self, args[1])
      [] n = "LevelBoltzmannFactor" ->
             LevelBoltzmannFactor_calculate(self, args[1], args[2])
      [] n = "PartitionFunction" ->
             PartitionFunction_calculate(self, args[1], args[2], ix)
      [] OTHER -> BasePlasmaProperty_calculate(self, args)

----------------------------------------------------------------------------
(* update *)

\* the effect of one update(): what it raised, what it returned, the
\* instance, the context and the source afterwards
\* an update that also returns the value and writes it to the context
Effect_publishing(raised, self, ctx, src, nread, reached) ==
    [raised |-> raised,
     ret |-> IF HasAttr(self, "value") THEN self.value ELSE None,
     self |-> self,
     ctx |-> IF HasAttr(self, "value") THEN SetAttr(ctx, "value", self.value)
             ELSE ctx,
     src |-> src, nread |-> nread, reached |-> reached]

Effect(raised, self, ctx, src, nread, reached) ==
    [raised |-> raised, ret |-> None, self |-> self, ctx |-> ctx, src |-> src,
     nread |-> nread, reached |-> reached]

\* getattr(self.plasma_parent, item)
getattr_parent(item) ==
    IF plasma_parent[item] = Ref("atomic_data") THEN atomic_data
    ELSE plasma_parent[item]

update(n, ix) ==
    LET self == nodes[n] IN
    IF ~HasInputs(n)
    THEN Effect(Raise("AttributeError", "inputs"), self, plasma_parent,
                atomic_data, 0, FALSE)
    ELSE
    LET absent == {i \in DOMAIN inputs(n) : ~HasAttr(plasma_parent, inputs(n)[i])}
    IN
    IF absent # {}
    THEN Effect(Raise("AttributeError",
                      inputs(n)[CHOOSE i \in absent : \A j \in absent : i <= j]),
                self, plasma_parent, atomic_data, 0, FALSE)
    ELSE
    LET args == [i \in DOMAIN inputs(n) |-> getattr_parent(inputs(n)[i])]
        r == calculate(n, self, args, ix)
    IN
    IF r.raised # NoError
    THEN Effect(r.raised, r.self, plasma_parent, atomic_data, r.nread, TRUE)
    ELSE Effect(NoError, SetAttr(r.self, "value", r.ret), plasma_parent,
                atomic_data, r.nread, TRUE)

----------------------------------------------------------------------------
(* Inputs *)

SourceNames == {"levels", "lines"}

\* the k-th levels dataset of the source: k levels of one species
LevelsDataset(k) ==
    LevelsTable([j \in 1..k |-> <<1, 0>>], [j \in 1..k |-> j],
                [j \in 1..k |-> j - 1], [j \in 1..k |-> j = 1])

LinesDataset(k) == [tag |-> "lines", index |-> [j \in 1..k |-> j]]

Dataset(nm, k) == IF nm = "levels" THEN LevelsDataset(k) ELSE LinesDataset(k)

Source(hasLevels, hasLines, kLevels, kLines) ==
    [tag |-> "atomic_data", has_levels |-> hasLevels, has_lines |-> hasLines,
     levels |-> LevelsDataset(kLevels), lines |-> LinesDataset(kLines)]

Sources ==
    {Source(a, b, k, l) : a \in BOOLEAN, b \in BOOLEAN,
                          k \in 1..NDatasets, l \in 1..NDatasets}

VectorsOfLen(n, S) == [1..n -> S]
Vectors(S) == UNION {VectorsOfLen(n, S) : n \in 1..MaxCells}

TRadVectors == Vectors(1..MaxT)

\* the beta_rad vectors BetaRadiation produces from TRadVectors
BetaValues == {Milli \div (k_B_cgs * t) : t \in 1..MaxT}
BetaVectors == Vectors(BetaValues)

\* dilution factors 0.5 and 1.0
WsValues == {Milli \div 2, Milli}

NoCall ==
    [op |-> "init", node |-> "", raised |-> NoError, before |-> None,
     nread |-> 0, ret |-> None, reached |-> FALSE]

EnvCall == [NoCall EXCEPT !.op = "env"]

----------------------------------------------------------------------------
(* Actions *)

\* one update() call on node n
Call(n, ix) ==
    \E out \in {update(n, ix)} :
    /\ nodes' = [nodes EXCEPT ![n] = out.self]
    /\ plasma_parent' = out.ctx
    /\ atomic_data' = out.src
    /\ last' = [op |-> "update", node |-> n, raised |-> out.raised,
                before |-> nodes[n], nread |-> out.nread, ret |-> out.ret,
                reached |-> out.reached]

Untracked == UNCHANGED <<reads, first_load, mutated>>

UpdateAtomicLevels ==
    /\ Call("AtomicLevels", "KeyError")
    /\ Untracked

UpdateAtomicLines ==
    /\ Call("AtomicLines", "KeyError")
    /\ Untracked

UpdateBetaRadiation ==
    /\ Call("BetaRadiation", "KeyError")
    /\ Untracked

UpdateLevelBoltzmannFactor ==
    /\ Call("LevelBoltzmannFactor", "KeyError")
    /\ Untracked

UpdateBasePlasmaProperty ==
    /\ Call("BasePlasmaProperty", "KeyError")
    /\ Untracked

UpdateBareSubclass ==
    /\ Call("BareSubclass", "KeyError")
    /\ Untracked

UpdatePartitionFunction ==
    /\ \E ix \in IxMissing : Call("PartitionFunction", ix)
    /\ Untracked

\* calculate(*args) called directly on a BasePlasmaProperty
ArgLists == {<<>>, <<None>>, <<Array(<<1>>)>>, <<None, Array(<<1>>)>>}

CalculateBase ==
    \E args \in ArgLists :
        LET r == BasePlasmaProperty_calculate(nodes["BasePlasmaProperty"], args)
        IN /\ nodes' = [nodes EXCEPT !["BasePlasmaProperty"] = r.self]
           /\ last' = [op |-> "calculate", node |-> "BasePlasmaProperty",
                       raised |-> r.raised,
                       before |-> nodes["BasePlasmaProperty"],
                       nread |-> r.nread, ret |-> r.ret, reached |-> TRUE]
           /\ UNCHANGED <<plasma_parent, atomic_data, reads, first_load, mutated>>

\* the context's t_rad is written between passes; the number of cells stays
SetTRad ==
    \E t \in VectorsOfLen(Len(plasma_parent["t_rad"].array), 1..MaxT) :
        /\ Array(t) # plasma_parent["t_rad"]
        /\ plasma_parent' = [plasma_parent EXCEPT !["t_rad"] = Array(t)]
        /\ last' = EnvCall
        /\ UNCHANGED <<atomic_data, nodes, reads, first_load, mutated>>

\* update() on a memoized-source node, with the history kept
UpdateTracked(n) ==
    /\ reads[name(n)] < MaxReads
    /\ Call(n, "KeyError")
    /\ reads' = [reads EXCEPT ![name(n)] = @ + last'.nread]
    /\ first_load' =
         IF last'.nread > 0 /\ first_load[name(n)] = None
         THEN [first_load EXCEPT ![name(n)] = atomic_data[name(n)]]
         ELSE first_load

TrackedAtomicLevels ==
    /\ UpdateTracked("AtomicLevels")
    /\ UNCHANGED mutated

TrackedAtomicLines ==
    /\ UpdateTracked("AtomicLines")
    /\ UNCHANGED mutated

\* the source's capability flag changes
SetHas ==
    \E nm \in SourceNames, b \in BOOLEAN :
        /\ atomic_data["has_" \o nm] # b
        /\ atomic_data' = [atomic_data EXCEPT !["has_" \o nm] = b]
        /\ mutated' = [mutated EXCEPT ![nm] = TRUE]
        /\ last' = EnvCall
        /\ UNCHANGED <<plasma_parent, nodes, reads, first_load>>

\* the source's dataset changes
SetDataset ==
    \E nm \in SourceNames, k \in 1..NDatasets :
        /\ atomic_data[nm] # Dataset(nm, k)
        /\ atomic_data' = [atomic_data EXCEPT ![nm] = Dataset(nm, k)]
        /\ mutated' = [mutated EXCEPT ![nm] = TRUE]
        /\ last' = EnvCall
        /\ UNCHANGED <<plasma_parent, nodes, reads, first_load>>

----------------------------------------------------------------------------
(* Specifications *)

InitHistory ==
    /\ reads = [nm \in SourceNames |-> 0]
    /\ first_load = [nm \in SourceNames |-> None]
    /\ mutated = [nm \in SourceNames |-> FALSE]
    /\ last = NoCall

\* the context of a graph: the primary inputs and what the orchestrator
\* exposes under the nodes' names
Context(t, lv, beta) ==
    [atomic_data |-> Ref("atomic_data"), t_rad |-> Array(t),
     levels |-> lv, lines |-> None, beta_rad |-> Array(beta),
     level_boltzmann_factor |-> None]

\* every node over one context
Init ==
    /\ \E t \in TRadVectors, lv \in {None, LevelsDataset(1)} :
          plasma_parent = Context(t, lv, [i \in DOMAIN t |-> Milli])
    /\ \E a \in BOOLEAN, b \in BOOLEAN : atomic_data = Source(a, b, 1, 1)
    /\ nodes = [n \in Nodes |-> Construct(n)]
    /\ InitHistory

Next ==
    \/ UpdateAtomicLevels
    \/ UpdateAtomicLines
    \/ UpdateBetaRadiation
    \/ UpdateLevelBoltzmannFactor
    \/ UpdatePartitionFunction
    \/ UpdateBasePlasmaProperty
    \/ UpdateBareSubclass
    \/ CalculateBase
    \/ SetTRad

Spec == Init /\ [][Next]_vars

\* the memoized-source nodes over a source that changes
InitMemo ==
    /\ plasma_parent = [atomic_data |-> Ref("atomic_data")]
    /\ atomic_data \in Sources
    /\ nodes = [n \in Nodes |-> Construct(n)]
    /\ InitHistory

NextMemo ==
    \/ TrackedAtomicLevels
    \/ TrackedAtomicLines
    \/ SetHas
    \/ SetDataset

SpecMemo == InitMemo /\ [][NextMemo]_vars

\* the level-population weighting node over every levels table and
\* beta_rad vector; calculate does not read the metastable column, which
\* here flags the first level of each species
GroundMetastable(lv) ==
    \A k \in DOMAIN lv.index : lv.metastable[k] = (lv.index[k][3] = 0)

InitLBF ==
    /\ \E lv \in {t \in LevelsTables : GroundMetastable(t)}, beta \in BetaVectors :
          plasma_parent = [levels |-> lv, beta_rad |-> Array(beta)]
    /\ atomic_data = Source(FALSE, FALSE, 1, 1)
    /\ nodes = [n \in Nodes |-> Construct(n)]
    /\ InitHistory

NextLBF == UpdateLevelBoltzmannFactor

SpecLBF == InitLBF /\ [][NextLBF]_vars

\* a PartitionFunction as constructed, or with the attributes its calculate
\* reads assigned by its owner: consistently (ws as long as t_rads,
\* atom_data.levels the context's levels table), or with a ws of another
\* length, or with an empty atom_data.levels
NlteConfigs ==
    {None} \cup {[tag |-> "nlte_config", species |-> sp] :
                   sp \in {<<>>, <<<<1, 0>>>>}}

Prepared(lv, t, wlen, w, alv, nlte) ==
    [plasma_parent |-> Ref("plasma_parent"),
     t_rads |-> Array(t),
     beta_rads |-> BetaRadiation_calculate([k_B_cgs |-> k_B_cgs], Array(t)).ret,
     ws |-> Array([c \in 1..wlen |-> w]),
     atom_data |-> [tag |-> "atomic_data", levels |-> alv],
     level_populations |->
         DataFrame(lv.index, arange(Len(t)),
                   [k \in DOMAIN lv.index |-> [c \in 1..Len(t) |-> k + c]]),
     nlte_config |-> nlte]

EmptyLevels == LevelsTable(<<>>, <<>>, <<>>, <<>>)

PartitionFunctions(lv) ==
    {Construct("PartitionFunction")} \cup
    {Prepared(lv, t, Len(t), w, lv, nlte) :
        t \in TRadVectors, w \in WsValues, nlte \in NlteConfigs} \cup
    {Prepared(lv, t, wlen, Milli, lv, None) :
        t \in TRadVectors, wlen \in 1..MaxCells} \cup
    {Prepared(lv, t, Len(t), Milli, EmptyLevels, None) : t \in TRadVectors}

InitPF ==
    /\ \E lv \in LevelsTables \ LevelsTablesOfLen(0) :
          /\ plasma_parent =
               [levels |-> lv,
                level_boltzmann_factor |->
                    LevelBoltzmannFactor_calculate(
                        Construct("LevelBoltzmannFactor"), lv,
                        Array(<<Milli>>)).ret]
          /\ \E pf \in PartitionFunctions(lv) :
                nodes = [n \in Nodes |->
                           IF n = "PartitionFunction" THEN pf ELSE Construct(n)]
    /\ atomic_data = Source(FALSE, FALSE, 1, 1)
    /\ InitHistory

NextPF == UpdatePartitionFunction

SpecPF == InitPF /\ [][NextPF]_vars

----------------------------------------------------------------------------
(* Properties *)

Updated(n) == last.op = "update" /\ last.node = n

HasFlag(n) == atomic_data["has_" \o name(n)]

\* C1: on a source that reports has_<name> and has not changed, the
\* attribute <name> is read at most once however many update() calls are
\* made, and every update() after the first read leaves value as it was.
C1_ReadAtMostOnce ==
    \A n \in MemoNodes :
        (HasFlag(n) /\ ~mutated[name(n)]) =>
            /\ reads[name(n)] <= 1
            /\ (Updated(n) /\ reads[name(n)] - last.nread >= 1) =>
                   nodes[n].value = last.before.value

\* C2: once an update() has loaded the dataset from a source reporting
\* has_<name>, value is that dataset in every later state, whatever happens
\* to the source and however many updates follow.
C2_ValueIsFirstLoad ==
    \A n \in MemoNodes :
        first_load[name(n)] # None => nodes[n].value = first_load[name(n)]

\* C3: update() on a memoized-source node with value unset, against a
\* source reporting has_<name> = false, raises IncompleteAtomicData carrying
\* the node's name, reads no attribute <name> and leaves the node as it was.
C3_MissingDataFails ==
    \A n \in MemoNodes :
        (Updated(n) /\ last.before.value = None /\ ~HasFlag(n)) =>
            /\ last.raised = Raise("IncompleteAtomicData", name(n))
            /\ last.nread = 0
            /\ nodes[n] = last.before

C3_Witness ==
    /\ Updated("AtomicLines")
    /\ ~HasFlag("AtomicLines")
    /\ mutated["lines"]
    /\ last.raised.type = "IncompleteAtomicData"

\* C4: right after every update() of BetaRadiation, value is the
\* element-wise 1 / (k_B * t_rad) of the context's t_rad at that call.
C4_LatestTRad ==
    Updated("BetaRadiation") =>
        /\ last.raised = NoError
        /\ nodes["BetaRadiation"].value =
             Array([i \in DOMAIN plasma_parent["t_rad"].array |->
                      Milli \div (k_B_cgs * plasma_parent["t_rad"].array[i])])

C4_Witness ==
    /\ Updated("BetaRadiation")
    /\ HasAttr(last.before, "value")
    /\ last.before.value # nodes["BetaRadiation"].value

\* C8: a step that is an update() of node n returns nothing and changes
\* neither the context, nor the source, nor any other node, nor any
\* attribute of n except value.
C8_UpdateFrame ==
    [][last'.op = "update" =>
         /\ last'.ret = None
         /\ plasma_parent' = plasma_parent
         /\ atomic_data' = atomic_data
         /\ \A m \in Nodes \ {last'.node} : nodes'[m] = nodes[m]
         /\ DOMAIN nodes'[last'.node] \ {"value"} =
                DOMAIN nodes[last'.node] \ {"value"}
         /\ \A a \in DOMAIN nodes[last'.node] \ {"value"} :
                nodes'[last'.node][a] = nodes[last'.node][a]]_vars

C8_Witness ==
    /\ Updated("BetaRadiation")
    /\ ~HasAttr(last.before, "value")
    /\ nodes["BetaRadiation"].value.tag = "array"

\* C10: whenever calculate of a node that does not override it is invoked,
\* directly or through update(), it raises NotImplementedError, and the
\* node is left as it was, without a value.
C10_NotImplemented ==
    (last.node \in AbstractNodes /\ last.reached) =>
        /\ last.raised.type = "NotImplementedError"
        /\ nodes[last.node] = last.before
        /\ ~HasAttr(nodes[last.node], "value")

C10_Witness ==
    /\ Updated("BareSubclass")
    /\ last.reached
    /\ last.raised.type = "NotImplementedError"

\* C9: the table LevelBoltzmannFactor stores has the row index of levels
\* in the same order, the columns 0..len(beta_rad)-1, and at row k, column
\* c the entry g_k * exp(-energy_k * beta_rad_c).
C9_RowIndexPreserved ==
    Updated("LevelBoltzmannFactor") =>
        LET lv == plasma_parent["levels"]
            b == plasma_parent["beta_rad"].array
            v == nodes["LevelBoltzmannFactor"].value
        IN /\ last.raised = NoError
           /\ v.tag = "DataFrame"
           /\ v.index = lv.index
           /\ v.columns = [c \in 1..Len(b) |-> c - 1]
           /\ DOMAIN v.data = DOMAIN lv.index
           /\ \A k \in DOMAIN lv.index :
                 /\ DOMAIN v.data[k] = 1..Len(b)
                 /\ \A c \in 1..Len(b) :
                       v.data[k][c] =
                           lv.g[k] * np_exp_neg(lv.energy[k] * b[c])

C9_Witness ==
    /\ Updated("LevelBoltzmannFactor")
    /\ Len(plasma_parent["levels"].index) = MaxLevels
    /\ plasma_parent["levels"].energy[1] = plasma_parent["levels"].energy[2]
    /\ plasma_parent["levels"].index[1][1] # plasma_parent["levels"].index[2][1]
    /\ Len(plasma_parent["beta_rad"].array) = MaxCells
    /\ Len(nodes["LevelBoltzmannFactor"].value.index) = MaxLevels

PF == "PartitionFunction"

\* C5: update() on a PartitionFunction as constructed completes and stores
\* a result when the context supplies exactly levels and
\* level_boltzmann_factor.
C5_CoupledByInputsOnly ==
    (/\ Updated(PF)
     /\ last.before = Construct(PF)
     /\ DOMAIN plasma_parent = {"levels", "level_boltzmann_factor"}) =>
        /\ last.raised = NoError
        /\ HasAttr(nodes[PF], "value")

\* lines 121-134 ran to the end
AggregationDone ==
    /\ Updated(PF)
    /\ last.raised.type \notin {"AttributeError", "ValueError", "KeyError"}

\* C6: with a non-empty NLTE override set configured, calculate returns a
\* table whose entry for every override species is g of its first level
\* times the sum over its levels of (population / first-level population).
C6_NlteOverride ==
    (/\ AggregationDone
     /\ nodes[PF].nlte_config # None
     /\ nodes[PF].nlte_config.species # <<>>
     /\ \A s \in Range(nodes[PF].nlte_config.species) :
           \E k \in DOMAIN plasma_parent["levels"].index :
              SpeciesOf(plasma_parent["levels"].index[k]) = s) =>
        /\ last.raised = NoError
        /\ \A s \in Range(nodes[PF].nlte_config.species) :
              /\ s \in DOMAIN nodes[PF].value.second.rows
              /\ \A c \in DOMAIN nodes[PF].t_rads.array :
                    nodes[PF].value.second.rows[s][c] =
                        NlteEntry(nodes[PF], s, c)

\* the entry the aggregation is to give species s in cell c: the sum of its
\* metastable rows plus ws times the sum of its non-metastable rows
Aggregate(lv, ws, beta, s, c) ==
    LET w == [k \in DOMAIN lv.index |->
                lv.g[k] * np_exp_neg(lv.energy[k] * beta[c])]
        mine == {k \in DOMAIN lv.index : SpeciesOf(lv.index[k]) = s}
    IN SumOver(w, {k \in mine : lv.metastable[k]}) +
       (ws[c] * SumOver(w, {k \in mine : ~lv.metastable[k]})) \div Milli

\* C7: without an NLTE override, the table calculate returns is indexed by
\* every species that has a level, metastable or not, and each entry is the
\* metastable sum plus ws times the non-metastable sum, a missing side
\* counting as zero.
C7_UnionOfIndices ==
    (/\ Updated(PF)
     /\ last.raised.type \notin {"AttributeError", "ValueError"}
     /\ nodes[PF].nlte_config \in {None, [tag |-> "nlte_config", species |-> <<>>]}) =>
        LET lv == plasma_parent["levels"] IN
        /\ last.raised = NoError
        /\ DOMAIN nodes[PF].value.second.rows =
              {SpeciesOf(lv.index[k]) : k \in DOMAIN lv.index}
        /\ \A s \in DOMAIN nodes[PF].value.second.rows :
              \A c \in DOMAIN nodes[PF].ws.array :
                 nodes[PF].value.second.rows[s][c] =
                    Aggregate(lv, nodes[PF].ws.array,
                              nodes[PF].beta_rads.array, s, c)

====
